---- MODULE Spec2Model ----
(***************************************************************************)
(* A model of subpub's `publish` command (src/main.rs) and of its git      *)
(* checkpoint helpers (src/git.rs).                                        *)
(*                                                                         *)
(* Crate names are the integers 1..NumCrates; their order as integers is   *)
(* the order of the names as strings (String::cmp).  Missing is a name     *)
(* that no crate of the workspace carries.                                 *)
(***************************************************************************)
EXTENDS Integers, Sequences, FiniteSets, TLC

\* Bounds of the model.
NumCrates == 3
MaxEdges == 4
MaxCommits == 3
MaxListed == 1

Names == 1..NumCrates
Missing == NumCrates + 1
AllNames == Names \cup {Missing}

VARIABLES
    deps,                 \* crates.details[k].deps_to_publish(), as a set of names
    should_be_published,  \* crates.details[k].should_be_published
    iterOrder,            \* the order in which `&crates.details` (a map) is iterated
    pc,                   \* position in publish()
    ordered,              \* Vec<OrderedCrate> publish_order (main.rs:140)
    passes,               \* number of passes of the order-resolution loop so far
    publish_order,        \* Vec<String> publish_order (main.rs:176)
    err,                  \* the error publish() returned, or NoErr
    opts,                 \* PublishOpts; an option is drawn where publish() first reads it
    crates_to_exclude,    \* HashSet crates_to_exclude (main.rs:205)
    selected_crates,      \* Vec selected_crates (main.rs:320)
    walk,                 \* the calls of validate_crates in progress, outermost first
    version,              \* crates.details[k].version, the version held in memory
    processed_crates,     \* HashSet processed_crates (main.rs:436)
    sel_idx,              \* position of `for sel_crate in selected_crates`
    crates_to_publish,    \* what is left of `for krate in crates_to_publish`
    already_processed_crates, \* Vec already_processed_crates (main.rs:487)
    steps,                \* the calls of the per-crate loop that returned Ok, in order
    last_version,         \* last_version of the crate at hand (main.rs:504)
    published,            \* the crates crates.publish() was called for, in order
    bumped,               \* the crates maybe_bump_version() was called for, in order
    history,              \* the commits of the repository at root, oldest first
    tree,                 \* the working tree at root: path -> content, 0 for no file
    call                  \* the call of the git.rs interface that returned last

crateVars == <<deps, should_be_published, iterOrder>>
orderVars == <<ordered, passes, publish_order>>
gitVars == <<history, tree, call>>
selVars == <<opts, crates_to_exclude, selected_crates, walk>>
pipeVars == <<version, processed_crates, sel_idx, crates_to_publish,
              already_processed_crates, steps, last_version, published, bumped>>

vars == <<deps, should_be_published, iterOrder, pc, ordered, passes, publish_order, err,
          opts, crates_to_exclude, selected_crates, walk, history, tree, call,
          version, processed_crates, sel_idx, crates_to_publish,
          already_processed_crates, steps, last_version, published, bumped>>

NoErr == [kind |-> "none"]

\* PublishOpts before publish() has read any of it.  start_from is an Option:
\* <<>> for None, <<name>> for Some(name).
NoOpts == [crates |-> {}, start_from |-> <<>>, include_crates_dependents |-> FALSE,
           exclude |-> {}]

----------------------------------------------------------------------------
\* Helpers on sequences and sets.

Range(s) == {s[i] : i \in 1..Len(s)}

Perms(S) == {p \in [1..Cardinality(S) -> S] : Range(p) = S}

IndexOf(s, x) == CHOOSE i \in 1..Len(s) : s[i] = x

RECURSIVE SumRanks(_)
SumRanks(s) == IF s = <<>> THEN 0 ELSE Head(s).rank + SumRanks(Tail(s))

OrderedNames(ord) == {ord[i].name : i \in 1..Len(ord)}

----------------------------------------------------------------------------
\* The order resolver (main.rs:140-203).

\* A rank that forgets the dependencies' ranks.
RankOfFlat(ordered_deps) == 1

\* The rank a crate gets when pushed: fold(1, +) over its ordered dependencies.
\* (checked_add panics past usize::MAX, which no workspace of these sizes reaches.)
RankOf(ordered_deps) == 1 + SumRanks(ordered_deps)

\* A readiness test that only counts the dependencies the workspace knows.
DepsOrderedKnown(d, krate, ordered_deps) ==
    Len(ordered_deps) = Cardinality(d[krate] \cap Names)

\* ordered_deps.len() == deps.len(): every dependency of krate is ordered already.
DepsOrdered(d, krate, ordered_deps) == Len(ordered_deps) = Cardinality(d[krate])

\* One `for (krate, details) in &crates.details` pass, from position i of the
\* iteration order on.
RECURSIVE ForEachCrate(_, _, _, _)
ForEachCrate(d, iter, ord, i) ==
    IF i > Len(iter) THEN ord
    ELSE LET krate == iter[i]
             ordered_deps == SelectSeq(ord, LAMBDA oc : oc.name \in d[krate])
         IN  IF krate \in OrderedNames(ord)
               THEN ForEachCrate(d, iter, ord, i + 1)
               ELSE IF DepsOrdered(d, krate, ordered_deps)
                      THEN ForEachCrate(d, iter,
                               Append(ord, [name |-> krate, rank |-> RankOf(ordered_deps)]),
                               i + 1)
                      ELSE ForEachCrate(d, iter, ord, i + 1)

\* A comparison without the tie-break on the name.
SortLessRankOnly(a, b) == a.rank < b.rank

\* The comparison of the sort: rank first, then name.
SortLess(a, b) == a.rank < b.rank \/ (a.rank = b.rank /\ a.name < b.name)

\* publish_order.sort_by(..): names are unique, so the sorted sequence is unique.
RECURSIVE SortBy(_)
SortBy(ord) ==
    IF ord = <<>> THEN <<>>
    ELSE LET m == CHOOSE i \in 1..Len(ord) :
                     \A j \in 1..Len(ord) : j = i \/ ~SortLess(ord[j], ord[i])
             rest == [j \in 1..(Len(ord) - 1) |-> IF j < m THEN ord[j] ELSE ord[j + 1]]
         IN  <<ord[m]>> \o SortBy(rest)

\* The whole loop of main.rs:141-168 for one iteration order.
RECURSIVE ResolveLoop(_, _, _)
ResolveLoop(d, iter, ord) ==
    LET next == ForEachCrate(d, iter, ord, 1)
    IN  IF next = ord THEN ord ELSE ResolveLoop(d, iter, next)

NamesOf(ord) == [i \in 1..Len(ord) |-> ord[i].name]

\* crates.details.keys() not in publish_order, in iteration order (main.rs:189-193).
UnorderedCrates(iter, order) == SelectSeq(iter, LAMBDA k : k \notin Range(order))

ResolvePass ==
    /\ pc = "resolve"
    /\ LET next == ForEachCrate(deps, iterOrder, ordered, 1)
       IN  /\ ordered' = next
           /\ passes' = passes + 1
           /\ pc' = IF next = ordered THEN "sort" ELSE "resolve"
    /\ UNCHANGED <<pipeVars, crateVars, publish_order, err, selVars, gitVars>>

SortOrder ==
    /\ pc = "sort"
    /\ ordered' = SortBy(ordered)
    /\ publish_order' = NamesOf(ordered')
    /\ pc' = "check_order"
    /\ UNCHANGED <<pipeVars, crateVars, passes, err, selVars, gitVars>>

CheckUnordered ==
    /\ pc = "check_order"
    /\ LET unordered_crates == UnorderedCrates(iterOrder, publish_order)
       IN  IF unordered_crates # <<>>
             THEN /\ pc' = "failed"
                  /\ err' = [kind |-> "order", crates |-> unordered_crates]
             ELSE /\ pc' = "exclude"
                  /\ err' = err
    /\ UNCHANGED <<pipeVars, crateVars, orderVars, selVars, gitVars>>

----------------------------------------------------------------------------
\* Graph notions the claims are stated with.

\* The names reachable from the set S along dependencies_to_publish edges.
RECURSIVE Closure(_, _)
Closure(d, S) ==
    LET T == S \cup UNION {d[k] : k \in S \cap Names}
    IN  IF T = S THEN S ELSE Closure(d, T)

\* The transitive dependencies_to_publish closure of k (k itself only on a cycle).
TransDeps(d, k) == Closure(d, d[k])

Acyclic(d) == \A k \in Names : k \notin TransDeps(d, k)

NoMissing(d) == \A k \in Names : d[k] \subseteq Names

\* On a cycle, referencing a missing name, or transitively depending on such a crate.
Unorderable(d) ==
    {k \in Names : \E x \in {k} \cup TransDeps(d, k) :
                       x = Missing \/ x \in TransDeps(d, x)}

Resolved == pc \notin {"resolve", "sort"}

\* C2: for an acyclic graph whose dependencies all name workspace crates, the
\* publish order holds every crate exactly once, each after all its dependencies.
C2_TopologicalOrder ==
    (Resolved /\ Acyclic(deps) /\ NoMissing(deps)) =>
        /\ pc # "failed"
        /\ Len(publish_order) = NumCrates
        /\ Range(publish_order) = Names
        /\ \A k \in Names : \A dep \in deps[k] :
               IndexOf(publish_order, dep) < IndexOf(publish_order, k)

C2_Witness ==
    /\ pc = "exclude"
    /\ \E k \in Names : Cardinality(deps[k]) = 2 /\ \E j \in deps[k] : deps[j] # {}
    /\ \E k \in Names : \E dep \in deps[k] : dep > k

\* C3: with a cycle or a missing dependency the loop ends within NumCrates + 1
\* passes and the run fails with the list of exactly the unorderable crates.
C3_UnorderableReported ==
    /\ passes <= NumCrates + 1
    /\ (pc = "resolve" => passes <= Len(ordered))
    /\ (~(Acyclic(deps) /\ NoMissing(deps))) =>
           /\ pc \in {"resolve", "sort", "check_order", "failed"}
           /\ pc = "failed" =>
                  /\ err.kind = "order"
                  /\ Range(err.crates) = Unorderable(deps)
                  /\ Len(err.crates) = Cardinality(Unorderable(deps))

C3_Witness ==
    /\ pc = "failed"
    /\ \E k \in Range(err.crates) : k \notin TransDeps(deps, k) /\ Missing \notin deps[k]
    /\ Range(err.crates) # Names

\* C4: the order and the ranks are those of every other iteration order of the
\* workspace map, and equal ranks are ordered by ascending name.
C4_OrderIndependentOfIteration ==
    Resolved =>
        /\ \A p \in Perms(Names) : SortBy(ResolveLoop(deps, p, <<>>)) = ordered
        /\ publish_order = NamesOf(ordered)
        /\ \A i, j \in 1..Len(ordered) :
               i < j => \/ ordered[i].rank < ordered[j].rank
                        \/ /\ ordered[i].rank = ordered[j].rank
                           /\ ordered[i].name < ordered[j].name

\* Two crates of equal rank that this run's iteration met in descending name order,
\* and an iteration order that needs a different number of passes.
C4_Witness ==
    /\ pc = "exclude"
    /\ \E i, j \in 1..Len(ordered) :
           /\ i < j
           /\ ordered[i].rank = ordered[j].rank
           /\ IndexOf(iterOrder, ordered[i].name) > IndexOf(iterOrder, ordered[j].name)
    /\ \E k \in Names : deps[k] # {} /\ 
           IndexOf(iterOrder, k) < IndexOf(iterOrder, CHOOSE x \in deps[k] : TRUE)

----------------------------------------------------------------------------
\* The checkpoint helpers (git.rs).

CHECKPOINT_SAVE == "[subpub] CHECKPOINT_SAVE"
CHECKPOINT_REVERT == "[subpub] CHECKPOINT_REVERT"

\* enum GitCheckpoint
Save == "Save"
RevertLater == "RevertLater"

NoCall == [name |-> "none"]

\* The per-crate loop of publish() has not started.
NotStarted ==
    /\ version = [k \in Names |-> 2]
    /\ processed_crates = {}
    /\ sel_idx = 1
    /\ crates_to_publish = <<>>
    /\ already_processed_crates = <<>>
    /\ steps = <<>>
    /\ last_version = 0
    /\ published = <<>>
    /\ bumped = <<>>

Last(s) == s[Len(s)]
Front(s) == SubSeq(s, 1, Len(s) - 1)

\* `git status --porcelain` prints something: the tree differs from HEAD's.
Dirty(h, t) == t # Last(h).tree

\* A commit message with the two markers swapped.
CommitMsgSwapped(op) == IF op = Save THEN CHECKPOINT_REVERT ELSE CHECKPOINT_SAVE

\* let commit_msg = match op { .. } (git.rs:45-48)
CommitMsg(op) == IF op = Save THEN CHECKPOINT_SAVE ELSE CHECKPOINT_REVERT

\* A checkpoint that commits without looking at `git status`.
git_checkpoint_always(h, t, op, cmd_ok) ==
    IF ~cmd_ok THEN [ok |-> FALSE, history |-> h]
    ELSE [ok |-> TRUE, history |-> Append(h, [msg |-> CommitMsg(op), tree |-> t])]

\* git_checkpoint(root, op): `git add .` and `git commit -m <marker>` when the
\* tree is dirty.  cmd_ok: whether the git commands it runs succeed; a failing
\* status, add or commit leaves no commit.
git_checkpoint(h, t, op, cmd_ok) ==
    IF ~cmd_ok THEN [ok |-> FALSE, history |-> h]
    ELSE IF Dirty(h, t)
           THEN [ok |-> TRUE, history |-> Append(h, [msg |-> CommitMsg(op), tree |-> t])]
           ELSE [ok |-> TRUE, history |-> h]

\* A with_git_checkpoint without the checkpoint that follows func.
with_git_checkpoint_no_commit(h, t, op, func_tree, ok1, ok2) ==
    [ok |-> ok2, ran |-> TRUE, history |-> h, tree |-> func_tree]

\* A with_git_checkpoint without the Save checkpoint in front of func.
with_git_checkpoint_no_presave(h, t, op, func_tree, ok1, ok2) ==
    LET post == git_checkpoint(h, func_tree, op, ok2)
    IN  [ok |-> post.ok, ran |-> TRUE, history |-> post.history, tree |-> func_tree]

\* with_git_checkpoint(root, op, func).  func_tree is the tree func leaves when
\* run on t; ok1 and ok2 are the outcomes of the git commands of the two
\* checkpoints.  On the error of the first checkpoint func does not run.
with_git_checkpoint(h, t, op, func_tree, ok1, ok2) ==
    LET pre == IF op # Save THEN git_checkpoint(h, t, Save, ok1)
               ELSE [ok |-> TRUE, history |-> h]
        post == git_checkpoint(pre.history, func_tree, op, ok2)
    IN  IF ~pre.ok THEN [ok |-> FALSE, ran |-> FALSE, history |-> h, tree |-> t]
        ELSE [ok |-> post.ok, ran |-> TRUE, history |-> post.history, tree |-> func_tree]

\* `git reset --hard <target>`: every path tracked by HEAD or by the target gets
\* the target's content; a file neither of them tracks stays as it is.
ResetHard(head, target, t) ==
    [p \in DOMAIN t |-> IF head[p] = 0 /\ target[p] = 0 THEN t[p] ELSE target[p]]

\* A revert that resets one RevertLater commit and returns.
git_checkpoint_revert_once(h, t, cmds) ==
    IF cmds = 0 THEN [ok |-> FALSE, history |-> h, tree |-> t]
    ELSE IF Last(h).msg = CHECKPOINT_REVERT
           THEN IF Len(h) = 1 THEN [ok |-> FALSE, history |-> h, tree |-> t]
                ELSE [ok |-> TRUE, history |-> Front(h),
                      tree |-> ResetHard(Last(h).tree, Last(Front(h)).tree, t)]
           ELSE [ok |-> TRUE, history |-> h, tree |-> t]

\* git_checkpoint_revert(root): while the last commit's message is the
\* RevertLater marker, `git reset --hard HEAD~1`.  cmds is the number of
\* `git log`/`git reset` pairs that succeed before one fails; HEAD~1 of a root
\* commit does not exist, so that reset fails.
RECURSIVE git_checkpoint_revert(_, _, _)
git_checkpoint_revert(h, t, cmds) ==
    IF cmds = 0 THEN [ok |-> FALSE, history |-> h, tree |-> t]
    ELSE IF Last(h).msg = CHECKPOINT_REVERT
           THEN IF Len(h) = 1 THEN [ok |-> FALSE, history |-> h, tree |-> t]
                ELSE git_checkpoint_revert(Front(h),
                         ResetHard(Last(h).tree, Last(Front(h)).tree, t), cmds - 1)
           ELSE [ok |-> TRUE, history |-> h, tree |-> t]

\* The repository of the git specification: two paths, each absent (0) or present.
GitPaths == {"Cargo.toml", "Cargo.lock"}
GitTrees == [GitPaths -> {0, 1}]

\* Something outside the helpers edits the working tree.
EditTree ==
    /\ pc = "git"
    /\ \E t \in GitTrees : t # tree /\ tree' = t
    /\ call' = NoCall
    /\ UNCHANGED <<pipeVars, crateVars, pc, orderVars, err, selVars, history>>

\* A caller runs with_git_checkpoint(root, op, func) with a func that leaves
\* any tree, the unchanged one included.  The record of the call keeps the tree
\* and the last commit's message as they were when it was made.
CallWithCheckpoint ==
    /\ pc = "git"
    /\ \E op \in {Save, RevertLater}, func_tree \in GitTrees, ok1, ok2 \in BOOLEAN :
         LET r == with_git_checkpoint(history, tree, op, func_tree, ok1, ok2)
         IN  /\ Len(r.history) <= MaxCommits + 1
             /\ (op = Save => ok1)
             /\ history' = r.history
             /\ tree' = r.tree
             /\ call' = [name |-> "with_git_checkpoint", op |-> op, ok |-> r.ok,
                         pre_tree |-> tree, pre_msg |-> Last(history).msg,
                         pre_dirty |-> Dirty(history, tree),
                         func_changed |-> (func_tree # tree),
                         commits |-> Len(r.history) - Len(history)]
    /\ UNCHANGED <<pipeVars, crateVars, pc, orderVars, err, selVars>>

\* A caller runs git_checkpoint_revert(root).  The record of the call keeps the
\* tree it started from, the number of commits it removed, and the call it
\* follows when that was a with_git_checkpoint.
CallRevert ==
    /\ pc = "git"
    /\ \E cmds \in 0..(Len(history) + 1) :
         LET r == git_checkpoint_revert(history, tree, cmds)
         IN  /\ (r.ok => cmds = Len(history) + 1)
             /\ history' = r.history
             /\ tree' = r.tree
             /\ call' = [name |-> "git_checkpoint_revert", ok |-> r.ok,
                         pre_tree |-> tree,
                         resets |-> Len(history) - Len(r.history),
                         follows |-> IF call.name = "with_git_checkpoint"
                                       THEN call ELSE NoCall]
    /\ UNCHANGED <<pipeVars, crateVars, pc, orderVars, err, selVars>>

InitGit ==
    /\ deps = [k \in Names |-> {}]
    /\ should_be_published = [k \in Names |-> TRUE]
    /\ iterOrder = [i \in 1..NumCrates |-> i]
    /\ pc = "git"
    /\ ordered = <<>>
    /\ passes = 0
    /\ publish_order = <<>>
    /\ err = NoErr
    /\ opts = NoOpts
    /\ crates_to_exclude = {}
    /\ selected_crates = <<>>
    /\ walk = <<>>
    /\ NotStarted
    /\ \E t \in GitTrees : history = <<[msg |-> "initial commit", tree |-> t]>>
    /\ tree \in GitTrees
    /\ call = NoCall

NextGit == EditTree \/ CallWithCheckpoint \/ CallRevert

SpecGit == InitGit /\ [][NextGit]_vars

----------------------------------------------------------------------------
\* Claims about the checkpoint helpers.

RevertAfter(op) ==
    /\ call.name = "git_checkpoint_revert"
    /\ call.ok
    /\ call.follows.name = "with_git_checkpoint"
    /\ call.follows.op = op
    /\ call.follows.ok

\* The number of RevertLater commits at the tip of h.
RECURSIVE TipRun(_)
TipRun(h) ==
    IF h = <<>> \/ Last(h).msg # CHECKPOINT_REVERT THEN 0 ELSE 1 + TipRun(Front(h))

\* A step of git_checkpoint_revert: what it removes.  It removes commits from
\* the tip only, never past the run of RevertLater commits; on success it has
\* removed the whole run and the tip is no RevertLater commit; with no
\* RevertLater commit at the tip nothing changes, the uncommitted changes
\* included.
RevertRemovesTipRun ==
    LET n == TipRun(history)
    IN  /\ Len(history') >= Len(history) - n
        /\ history' = SubSeq(history, 1, Len(history'))
        /\ call'.ok => /\ Len(history') = Len(history) - n
                       /\ Last(history').msg # CHECKPOINT_REVERT
        /\ n = 0 => history' = history /\ tree' = tree

\* C17 as stated: revert() removes exactly the run of RevertLater commits at
\* the tip, and, having removed some, leaves on success the tree equal to the
\* commit that is then the most recent.
C17_RevertLeavesTipTree ==
    [][call'.name = "git_checkpoint_revert" =>
          /\ RevertRemovesTipRun
          /\ (call'.ok /\ TipRun(history) > 0) => tree' = Last(history').tree]_vars

\* C17 with the files git does not track: having removed some commits, a
\* successful revert() leaves every path that a removed commit or the commit
\* that is then the most recent tracks as that commit has it, and every other
\* path as it was in the working tree.
C17_RevertLeavesTrackedPaths ==
    [][call'.name = "git_checkpoint_revert" =>
          /\ RevertRemovesTipRun
          /\ (call'.ok /\ TipRun(history) > 0) =>
                 \A p \in DOMAIN tree :
                     IF \E i \in Len(history')..Len(history) : history[i].tree[p] # 0
                       THEN tree'[p] = Last(history').tree[p]
                       ELSE tree'[p] = tree[p]]_vars

\* A revert that removed two RevertLater commits and left an untracked file.
C17_Witness ==
    /\ call.name = "git_checkpoint_revert"
    /\ call.ok
    /\ call.resets = 2
    /\ Dirty(history, tree)

\* C18: a checkpoint on a clean tree changes nothing; on a tree with
\* uncommitted changes it appends one commit, with the marker of op and the
\* whole tree, after which the tree is clean; a second checkpoint right after
\* it adds nothing; and after a successful with_git_checkpoint the tree is clean.
C18_CheckpointCommitsDirtyTreeOnce ==
    pc = "git" =>
        /\ \A op \in {Save, RevertLater} :
               LET r == git_checkpoint(history, tree, op, TRUE)
                   marker == IF op = Save THEN "[subpub] CHECKPOINT_SAVE"
                             ELSE "[subpub] CHECKPOINT_REVERT"
               IN  /\ r.ok
                   /\ ~Dirty(history, tree) => r.history = history
                   /\ Dirty(history, tree) =>
                          /\ r.history = Append(history, [msg |-> marker, tree |-> tree])
                          /\ ~Dirty(r.history, tree)
                   /\ \A op2 \in {Save, RevertLater} :
                          git_checkpoint(r.history, tree, op2, TRUE).history = r.history
        /\ (call.name = "with_git_checkpoint" /\ call.ok) =>
               /\ ~Dirty(history, tree)
               /\ call.commits <= 2
               /\ (call.op = RevertLater /\ ~call.func_changed) => call.commits <= 1
               /\ (~call.pre_dirty /\ ~call.func_changed) => call.commits = 0

\* A with_git_checkpoint(RevertLater, f) on a dirty tree with an f that changed
\* nothing: its two checkpoints ran in a row and one commit was added.
C18_Witness ==
    /\ call.name = "with_git_checkpoint"
    /\ call.ok
    /\ call.op = RevertLater
    /\ call.pre_dirty
    /\ ~call.func_changed
    /\ call.commits = 1
    /\ Last(history).msg = CHECKPOINT_SAVE

\* C5 as stated: from every state, with_checkpoint(RevertLater, f) followed by
\* revert() leaves the tree as it was right before the with_checkpoint call.
C5_RevertRestoresFromEveryState ==
    RevertAfter(RevertLater) => tree = call.follows.pre_tree

\* C5 amended: the same, from the states whose last commit is not a RevertLater
\* marker or whose tree has uncommitted changes.
C5_RevertRestoresPreCallTree ==
    (/\ RevertAfter(RevertLater)
     /\ (call.follows.pre_msg # CHECKPOINT_REVERT \/ call.follows.pre_dirty))
        => tree = call.follows.pre_tree

\* A dirty tree on top of a RevertLater commit, a func that changes files, and a
\* revert that removed func's commit only.
C5_Witness ==
    /\ RevertAfter(RevertLater)
    /\ call.follows.pre_msg = CHECKPOINT_REVERT
    /\ call.follows.pre_dirty
    /\ call.follows.func_changed
    /\ call.resets = 1
    /\ tree = call.follows.pre_tree

\* C6 as stated: from every state, revert() right after with_checkpoint(Save, f)
\* resets nothing and leaves the tree as with_checkpoint left it.
C6_RevertAfterSaveFromEveryState ==
    RevertAfter(Save) => (call.resets = 0 /\ tree = call.pre_tree)

\* C6 amended: the same, when the last commit is not a RevertLater marker at the
\* call of with_checkpoint or the call commits (the tree is dirty after f).
C6_RevertAfterSaveIsNoOp ==
    (/\ RevertAfter(Save)
     /\ (call.follows.pre_msg # CHECKPOINT_REVERT \/ call.follows.commits > 0))
        => (call.resets = 0 /\ tree = call.pre_tree)

\* A Save checkpoint committed on top of a RevertLater commit, then the revert.
C6_Witness ==
    /\ RevertAfter(Save)
    /\ call.follows.pre_msg = CHECKPOINT_REVERT
    /\ call.follows.commits = 1
    /\ call.resets = 0
    /\ Len(history) >= 3

----------------------------------------------------------------------------
\* Workspaces: no crate depends on itself, and the graph has at most MaxEdges
\* dependency edges in all.

RECURSIVE SumCard(_, _)
SumCard(d, S) ==
    IF S = {} THEN 0
    ELSE LET k == CHOOSE x \in S : TRUE
         IN  Cardinality(d[k]) + SumCard(d, S \ {k})

Graphs ==
    {d \in [Names -> SUBSET AllNames] :
        /\ \A k \in Names : k \notin d[k]
        /\ SumCard(d, Names) <= MaxEdges}

InitOrder ==
    /\ deps \in Graphs
    /\ should_be_published = [k \in Names |-> TRUE]
    /\ iterOrder \in Perms(Names)
    /\ pc = "resolve"
    /\ ordered = <<>>
    /\ passes = 0
    /\ publish_order = <<>>
    /\ err = NoErr
    /\ opts = NoOpts
    /\ crates_to_exclude = {}
    /\ selected_crates = <<>>
    /\ walk = <<>>
    /\ NotStarted
    /\ history = <<>>
    /\ tree = <<>>
    /\ call = NoCall

NextOrder == ResolvePass \/ SortOrder \/ CheckUnordered

SpecOrder == InitOrder /\ [][NextOrder]_vars

----------------------------------------------------------------------------
\* The exclusion closure (main.rs:205-241).

\* One pass of the loop: for every crate excluded when the pass starts, every
\* crate of publish_order that depends on it is inserted.
ExcludePass(d, order, excl) ==
    excl \cup {krate \in Range(order) : \E excluded_crate \in excl : excluded_crate \in d[krate]}

\* A closure that stops after its first pass.
ExcludeLoopSinglePass(d, order, excl) == ExcludePass(d, order, excl)

\* loop { .. if !progressed { break; } }
RECURSIVE ExcludeLoop(_, _, _)
ExcludeLoop(d, order, excl) ==
    LET next == ExcludePass(d, order, excl)
    IN  IF next = excl THEN excl ELSE ExcludeLoop(d, order, next)

\* The lists of names a command line can carry, at most MaxListed names each.
NameLists == {L \in SUBSET AllNames : Cardinality(L) <= MaxListed}

ComputeExclusions ==
    /\ pc = "exclude"
    /\ \E exclude \in NameLists :
         /\ opts' = [opts EXCEPT !.exclude = exclude]
         /\ crates_to_exclude' = ExcludeLoop(deps, publish_order, exclude)
    /\ pc' = "select"
    /\ UNCHANGED <<pipeVars, crateVars, orderVars, err, selected_crates, walk, gitVars>>

----------------------------------------------------------------------------
\* Selection (main.rs:243-341).

\* One pass of the include-dependents loop (main.rs:280-306).
IncludePass(d, pub, order, excl, incl) ==
    incl \cup {krate \in Range(order) :
                 /\ krate \notin excl
                 /\ pub[krate]
                 /\ \E included_crate \in incl : included_crate \in d[krate]}

\* An include-dependents loop that stops after its first pass.
IncludeLoopSinglePass(d, pub, order, excl, incl) == IncludePass(d, pub, order, excl, incl)

\* loop { .. if !progressed { break; } } (main.rs:277-311)
RECURSIVE IncludeLoop(_, _, _, _, _)
IncludeLoop(d, pub, order, excl, incl) ==
    LET next == IncludePass(d, pub, order, excl, incl)
    IN  IF next = incl THEN incl ELSE IncludeLoop(d, pub, order, excl, next)

\* An input sequence that, for an empty list, keeps every crate outside the
\* exclusion closure, publishable or not.
InputCratesUnfiltered(d, pub, order, excl, o) ==
    IF o.crates = {}
      THEN SelectSeq(order, LAMBDA krate : o.start_from = <<krate>> \/ krate \notin excl)
      ELSE SelectSeq(order, LAMBDA ordered_crate : ordered_crate \in o.crates)

\* let input_crates = if opts.crates.is_empty() { .. } else { .. }
InputCrates(d, pub, order, excl, o) ==
    IF o.crates = {}
      THEN SelectSeq(order, LAMBDA krate :
               \/ o.start_from = <<krate>>
               \/ (krate \notin excl /\ pub[krate]))
      ELSE LET crates_to_include ==
                   IF o.include_crates_dependents
                     THEN IncludeLoop(d, pub, order, excl, o.crates)
                     ELSE o.crates
           IN  SelectSeq(order, LAMBDA ordered_crate : ordered_crate \in crates_to_include)

\* A slicing that does not look at the exclusion of the start-from crate.
RECURSIVE RetainFromStart(_, _, _, _)
RetainFromStart(input, start_from, excl, keep) ==
    IF input = <<>> THEN <<>>
    ELSE LET keep2 == keep \/ Head(input) = start_from
         IN  (IF keep2 THEN <<Head(input)>> ELSE <<>>)
                 \o RetainFromStart(Tail(input), start_from, excl, keep2)

\* input_crates.retain_mut(..) with the `keep` flag (main.rs:322-334).
RECURSIVE Retain(_, _, _, _)
Retain(input, start_from, excl, keep) ==
    IF input = <<>> THEN <<>>
    ELSE LET krate == Head(input)
             keep2 == keep \/ krate = start_from
         IN  IF krate = start_from /\ krate \in excl
               THEN Retain(Tail(input), start_from, excl, keep2)
               ELSE (IF keep2 THEN <<krate>> ELSE <<>>)
                        \o Retain(Tail(input), start_from, excl, keep2)

SelectedCrates(input_crates, excl, o) ==
    IF o.start_from # <<>>
      THEN Retain(input_crates, o.start_from[1], excl, FALSE)
      ELSE input_crates

StartFroms == {<<>>} \cup {<<n>> : n \in AllNames}

SelectCrates ==
    /\ pc = "select"
    /\ \E crates \in NameLists, start_from \in StartFroms, dependents \in BOOLEAN :
         LET o == [opts EXCEPT !.crates = crates, !.start_from = start_from,
                               !.include_crates_dependents = dependents]
             input_crates == InputCrates(deps, should_be_published, publish_order,
                                         crates_to_exclude, o)
             selected == SelectedCrates(input_crates, crates_to_exclude, o)
         IN  /\ opts' = o
             /\ selected_crates' = selected
             /\ IF selected = <<>>
                  THEN /\ pc' = "failed"
                       /\ err' = [kind |-> "no_crates_selected"]
                  ELSE /\ pc' = "validate"
                       /\ err' = err
    /\ UNCHANGED <<pipeVars, crateVars, orderVars, crates_to_exclude, walk, gitVars>>

----------------------------------------------------------------------------
\* Validation (main.rs:352-415).

Ok == [kind |-> "ok"]

\* details.deps_to_publish() as the sequence it is iterated in: ascending names.
RECURSIVE DepSeq(_)
DepSeq(S) ==
    IF S = {} THEN <<>>
    ELSE LET m == CHOOSE x \in S : \A y \in S : x <= y
         IN  <<m>> \o DepSeq(S \ {m})

\* A validation that does not look at should_be_published.
RECURSIVE validate_crates_excluded_only(_, _, _, _, _, _, _)
validate_crates_excluded_only(d, pub, initial_crate, parent_crate, krate, excluded_crates, visited_crates) ==
    IF krate \in Range(visited_crates) THEN Ok
    ELSE IF krate \in excluded_crates
      THEN [kind |-> "excluded", krate |-> krate, parent |-> parent_crate,
            initial |-> initial_crate]
    ELSE IF krate \notin Names THEN [kind |-> "not_found", krate |-> krate]
    ELSE LET results == [i \in 1..Cardinality(d[krate]) |->
                 validate_crates_excluded_only(d, pub, initial_crate,
                     IF krate = initial_crate THEN <<>> ELSE <<krate>>,
                     DepSeq(d[krate])[i], excluded_crates, Append(visited_crates, krate))]
             errors == SelectSeq(results, LAMBDA r : r # Ok)
         IN  IF errors = <<>> THEN Ok ELSE Head(errors)

\* fn validate_crates(..): Ok, or the first error of the depth-first walk.
\* parent_crate is an Option, <<>> or <<name>>.
RECURSIVE validate_crates(_, _, _, _, _, _, _)
validate_crates(d, pub, initial_crate, parent_crate, krate, excluded_crates, visited_crates) ==
    IF krate \in Range(visited_crates) THEN Ok
    ELSE IF krate \in excluded_crates
      THEN [kind |-> "excluded", krate |-> krate, parent |-> parent_crate,
            initial |-> initial_crate]
    ELSE IF krate \notin Names THEN [kind |-> "not_found", krate |-> krate]
    ELSE IF ~pub[krate]
      THEN [kind |-> "should_not_be_published", krate |-> krate, parent |-> parent_crate,
            initial |-> initial_crate]
    ELSE LET results == [i \in 1..Cardinality(d[krate]) |->
                 validate_crates(d, pub, initial_crate,
                     IF krate = initial_crate THEN <<>> ELSE <<krate>>,
                     DepSeq(d[krate])[i], excluded_crates, Append(visited_crates, krate))]
             errors == SelectSeq(results, LAMBDA r : r # Ok)
         IN  IF errors = <<>> THEN Ok ELSE Head(errors)

\* A validation loop that returns after its first crate.
ValidateFirstOnly(d, pub, selected, excl) ==
    validate_crates(d, pub, selected[1], <<>>, selected[1], excl, <<>>)

\* The loop of main.rs:412-415: the first error, or Ok.
ValidateAll(d, pub, selected, excl) ==
    LET results == [i \in 1..Len(selected) |->
            validate_crates(d, pub, selected[i], <<>>, selected[i], excl, <<>>)]
        errors == SelectSeq(results, LAMBDA r : r # Ok)
    IN  IF errors = <<>> THEN Ok ELSE Head(errors)

\* for krate in &selected_crates { validate_crates(..)?; }  Past this loop
\* publish() reads none of the options of the model any more, and opts is reset.
ValidateSelected ==
    /\ pc = "validate"
    /\ LET result == ValidateAll(deps, should_be_published, selected_crates,
                                 crates_to_exclude)
       IN  IF result = Ok
             THEN /\ pc' = "registry"
                  /\ err' = err
                  /\ opts' = NoOpts
             ELSE /\ pc' = "failed"
                  /\ err' = result
                  /\ opts' = opts
    /\ UNCHANGED <<pipeVars, crateVars, orderVars, crates_to_exclude, selected_crates, walk,
                   gitVars>>

\* The workspaces that pass order resolution.
Dags == {d \in Graphs : Acyclic(d) /\ NoMissing(d)}

InitSel ==
    /\ deps \in Dags
    /\ should_be_published \in [Names -> BOOLEAN]
    /\ iterOrder = [i \in 1..NumCrates |-> i]
    /\ pc = "exclude"
    /\ ordered = SortBy(ResolveLoop(deps, iterOrder, <<>>))
    /\ passes = 0
    /\ publish_order = NamesOf(ordered)
    /\ err = NoErr
    /\ opts = NoOpts
    /\ crates_to_exclude = {}
    /\ selected_crates = <<>>
    /\ walk = <<>>
    /\ NotStarted
    /\ history = <<>>
    /\ tree = <<>>
    /\ call = NoCall

NextSel == ComputeExclusions \/ SelectCrates \/ ValidateSelected

SpecSel == InitSel /\ [][NextSel]_vars

\* The exclusion loop alone, over every resolved workspace of publishable crates.
InitExcl == InitSel /\ \A k \in Names : should_be_published[k]

NextExcl == ComputeExclusions

SpecExcl == InitExcl /\ [][NextExcl]_vars

\* C10: the exclusion set is the least set that contains the exclude list and
\* every crate of the publish order with a dependency in the set; it contains
\* the exclude list and is a fixed point of the closure computation.
ClosedUnderDependents(S) ==
    \A k \in Range(publish_order) : (deps[k] \cap S # {}) => k \in S

C10_ExclusionClosure ==
    pc \in {"select", "validate", "failed"} =>
        /\ opts.exclude \subseteq crates_to_exclude
        /\ ClosedUnderDependents(crates_to_exclude)
        /\ \A S \in SUBSET AllNames :
               (opts.exclude \subseteq S /\ ClosedUnderDependents(S))
                   => crates_to_exclude \subseteq S
        /\ ExcludeLoop(deps, publish_order, crates_to_exclude) = crates_to_exclude

\* A crate excluded only through a chain of two dependencies.
C10_Witness ==
    /\ pc = "select"
    /\ \E a, b, c \in Names :
           /\ opts.exclude = {a}
           /\ a \in deps[b] /\ b \in deps[c] /\ a \notin deps[c]
           /\ c \in crates_to_exclude

\* The states in which opts holds the command line the selection was made from.
OptsHeld == pc \in {"validate", "failed"} /\ err.kind \notin {"order"}

\* C11: with an empty requested list no selected crate is on the exclude list
\* or depends, directly or transitively, on a crate of it, with or without a
\* start-from name.
C11_EmptyListSelectsNoExcluded ==
    (OptsHeld /\ opts.crates = {}) =>
        \A i \in 1..Len(selected_crates) :
            /\ selected_crates[i] \notin opts.exclude
            /\ TransDeps(deps, selected_crates[i]) \cap opts.exclude = {}
            /\ selected_crates[i] \notin crates_to_exclude

\* A selection from an empty list whose start-from crate is in the exclusion
\* closure and was dropped, with a later crate selected.
C11_Witness ==
    /\ pc = "validate"
    /\ opts.crates = {}
    /\ opts.start_from # <<>>
    /\ opts.start_from[1] \in crates_to_exclude
    /\ opts.start_from[1] \in Names
    /\ selected_crates # <<>>

\* The validator run of the loop of main.rs:412-415 for one selected crate.
ValidationOf(krate) ==
    validate_crates(deps, should_be_published, krate, <<>>, krate, crates_to_exclude, <<>>)

ExcludedError(krate, parent, initial) ==
    [kind |-> "excluded", krate |-> krate, parent |-> parent, initial |-> initial]

\* C12 as stated: with A selected, A depending on B, B on C and C on the
\* exclude list, the validation of A fails naming C as the excluded crate, B
\* as its parent and A as the initial crate.
C12_ExcludedErrorNamesChain ==
    OptsHeld =>
        \A A \in Range(selected_crates), B \in Names, C \in Names :
            (B \in deps[A] /\ C \in deps[B] /\ C \in opts.exclude)
                => ValidationOf(A) = ExcludedError(C, <<B>>, A)

\* C12 as the run behaves: the validation of a selected crate that is on the
\* exclude list or reaches a crate of it fails at the selected crate itself,
\* which is in the exclusion closure: the error names it as the excluded crate
\* and as the initial crate, without a parent; an exclusion error that ends a
\* run never names a dependency.
C12_ExcludedErrorNamesSelected ==
    OptsHeld =>
        /\ \A A \in Range(selected_crates) :
               (({A} \cup TransDeps(deps, A)) \cap opts.exclude # {})
                   => ValidationOf(A) = ExcludedError(A, <<>>, A)
        /\ (pc = "failed" /\ err.kind = "excluded") =>
               /\ err.krate = err.initial
               /\ err.parent = <<>>
               /\ err.krate \in Range(selected_crates)

\* The run failed validating A, where A depends on B, B on C, and C is on the
\* exclude list.
C12_Witness ==
    /\ pc = "failed"
    /\ err.kind = "excluded"
    /\ \E B, C \in Names :
           B \in deps[err.initial] /\ C \in deps[B] /\ C \in opts.exclude

\* The crates_to_include set of main.rs:274-312 for the options of the run.
CratesToInclude ==
    IF opts.include_crates_dependents
      THEN IncludeLoop(deps, should_be_published, publish_order, crates_to_exclude,
                       opts.crates)
      ELSE opts.crates

\* krate reaches a requested crate along dependencies whose intermediate crates
\* are all publishable and outside the exclusion closure.
RECURSIVE ReachesRequested(_)
ReachesRequested(krate) ==
    \E dep \in deps[krate] :
        \/ dep \in opts.crates
        \/ /\ dep \in Names
           /\ should_be_published[dep]
           /\ dep \notin crates_to_exclude
           /\ ReachesRequested(dep)

\* A selection from a non-empty requested list with include-dependents set.
WithDependents == OptsHeld /\ opts.crates # {} /\ opts.include_crates_dependents

\* C21 as stated: with a non-empty requested list and include-dependents set
\* the inclusion set is the requested names plus every publishable crate
\* outside the exclusion closure that depends directly or transitively on a
\* requested crate, whatever the crates the path passes through.
C21_InclusionIsAllDependents ==
    WithDependents =>
        CratesToInclude = opts.crates \cup
            {krate \in Names :
                /\ should_be_published[krate]
                /\ krate \notin crates_to_exclude
                /\ TransDeps(deps, krate) \cap opts.crates # {}}

\* C21 as the code behaves: the inclusion set is the requested names plus every
\* publishable crate outside the exclusion closure that reaches a requested
\* crate along a dependency path whose intermediate crates are all publishable;
\* without a start-from name the selection is the crates of the publish order
\* that are in this set.
C21_InclusionIsPublishableChains ==
    WithDependents =>
        /\ CratesToInclude = opts.crates \cup
               {krate \in Names :
                   /\ should_be_published[krate]
                   /\ krate \notin crates_to_exclude
                   /\ ReachesRequested(krate)}
        /\ opts.start_from = <<>> =>
               Range(selected_crates) = CratesToInclude \cap Range(publish_order)

\* A selection in which a publishable crate outside the exclusion closure
\* depends on a requested crate only through an unpublishable crate and is
\* not selected.
C21_Witness ==
    /\ pc = "validate"
    /\ opts.crates # {}
    /\ opts.include_crates_dependents
    /\ opts.start_from = <<>>
    /\ \E x \in Names :
           /\ should_be_published[x]
           /\ x \notin crates_to_exclude
           /\ TransDeps(deps, x) \cap opts.crates # {}
           /\ ~ReachesRequested(x)
           /\ x \notin Range(selected_crates)

\* The input_crates sequence of main.rs:243-318 for the options of the run.
InputOfRun ==
    InputCrates(deps, should_be_published, publish_order, crates_to_exclude, opts)

\* A selection with a start-from name that is a crate of the workspace.
WithStartFrom == OptsHeld /\ opts.start_from # <<>> /\ opts.start_from[1] \in Names

\* C22 as stated: with a start-from name the selection is the ordered inclusion
\* sequence without the crates that precede start-from in the publish order and
\* without start-from when it is in the exclusion closure; the crates that
\* follow start-from in the publish order are kept whether or not start-from is
\* in the inclusion sequence.
C22_SliceByPublishOrder ==
    WithStartFrom =>
        LET start_from == opts.start_from[1]
        IN  selected_crates = SelectSeq(InputOfRun, LAMBDA krate :
                /\ IndexOf(publish_order, krate) >= IndexOf(publish_order, start_from)
                /\ ~(krate = start_from /\ krate \in crates_to_exclude))

\* C22 as the code behaves: when start-from is in the ordered inclusion sequence
\* the selection is that sequence without the crates before start-from and
\* without start-from when it is in the exclusion closure; when start-from is
\* not in the sequence nothing is kept and the run ends with the
\* empty-selection error.
C22_SliceByInclusionSequence ==
    WithStartFrom =>
        LET start_from == opts.start_from[1]
        IN  IF start_from \in Range(InputOfRun)
              THEN selected_crates = SelectSeq(InputOfRun, LAMBDA krate :
                       /\ IndexOf(InputOfRun, krate) >= IndexOf(InputOfRun, start_from)
                       /\ ~(krate = start_from /\ krate \in crates_to_exclude))
              ELSE /\ selected_crates = <<>>
                   /\ pc = "failed"
                   /\ err.kind = "no_crates_selected"

\* A selection sliced at a start-from crate that is in the inclusion sequence
\* between two other crates of it and in the exclusion closure.
C22_Witness ==
    /\ pc = "validate"
    /\ opts.start_from # <<>>
    /\ opts.start_from[1] \in Range(InputOfRun)
    /\ opts.start_from[1] \in crates_to_exclude
    /\ Len(InputOfRun) >= 3
    /\ InputOfRun[2] = opts.start_from[1]
    /\ selected_crates = SubSeq(InputOfRun, 3, Len(InputOfRun))

\* The error of main.rs:386 for a selected crate that is not publishable.
ShouldNotBePublishedError(krate) ==
    [kind |-> "should_not_be_published", krate |-> krate, parent |-> <<>>,
     initial |-> krate]

\* C24 as stated: with an empty requested list every selected crate is marked
\* publishable, with or without a start-from name.
C24_EmptyListSelectsPublishable ==
    (OptsHeld /\ opts.crates = {}) =>
        \A krate \in Range(selected_crates) : should_be_published[krate]

\* C24 as the code behaves: with an empty requested list every selected crate
\* other than the start-from crate is marked publishable; a start-from crate
\* that is not publishable and outside the exclusion closure is selected, as
\* the first crate, and validation then ends the run with the error that names
\* it; no selection with an unpublishable crate passes validation.
C24_EmptyListSelectsPublishableOrStartFrom ==
    /\ (OptsHeld /\ opts.crates = {}) =>
           /\ \A krate \in Range(selected_crates) :
                  \/ should_be_published[krate]
                  \/ /\ opts.start_from = <<krate>>
                     /\ krate \notin crates_to_exclude
                     /\ krate = selected_crates[1]
                     /\ pc = "failed" => err = ShouldNotBePublishedError(krate)
           /\ \A krate \in Names :
                  (/\ opts.start_from = <<krate>>
                   /\ krate \notin crates_to_exclude
                   /\ ~should_be_published[krate]) => selected_crates[1] = krate
    /\ pc = "registry" =>
           \A krate \in Range(selected_crates) : should_be_published[krate]

\* A run that selected, from an empty list, an unpublishable start-from crate
\* and a crate after it, and failed validation.
C24_Witness ==
    /\ pc = "failed"
    /\ opts.crates = {}
    /\ opts.start_from # <<>>
    /\ Len(selected_crates) >= 2
    /\ selected_crates[1] = opts.start_from[1]
    /\ ~should_be_published[selected_crates[1]]
    /\ err = ShouldNotBePublishedError(selected_crates[1])

----------------------------------------------------------------------------
\* validate_crates call by call (main.rs:352-411).  walk holds one frame for
\* every call in progress: its krate, parent_crate and visited_crates, whether
\* it is past its checks, and the dependencies its loop has still to visit.

Frame(krate, parent_crate, visited_crates) ==
    [krate |-> krate, parent |-> parent_crate, visited |-> visited_crates,
     entered |-> FALSE, todo |-> <<>>]

Descend == [kind |-> "descend"]

\* Checks that do not look at should_be_published.
EnterResultExcludedOnly(pub, initial_crate, f, excluded_crates) ==
    IF f.krate \in Range(f.visited) THEN Ok
    ELSE IF f.krate \in excluded_crates
      THEN ExcludedError(f.krate, f.parent, initial_crate)
    ELSE IF f.krate \notin Names THEN [kind |-> "not_found", krate |-> f.krate]
    ELSE Descend

\* What a call does before its loop (main.rs:360-388): return Ok, bail, or go
\* on to the dependencies.
EnterResult(pub, initial_crate, f, excluded_crates) ==
    IF f.krate \in Range(f.visited) THEN Ok
    ELSE IF f.krate \in excluded_crates
      THEN ExcludedError(f.krate, f.parent, initial_crate)
    ELSE IF f.krate \notin Names THEN [kind |-> "not_found", krate |-> f.krate]
    ELSE IF ~pub[f.krate]
      THEN [kind |-> "should_not_be_published", krate |-> f.krate, parent |-> f.parent,
            initial |-> initial_crate]
    ELSE Descend

\* The innermost call returns Ok to its caller, or to publish().
ReturnOk ==
    /\ walk' = Front(walk)
    /\ IF Len(walk) = 1
         THEN pc' = "validated" /\ err' = Ok
         ELSE pc' = pc /\ err' = err

\* The innermost call starts: main.rs:360-388.  An error goes up through the
\* `?` of every caller.
EnterCrate ==
    /\ pc = "walk"
    /\ walk # <<>>
    /\ ~Last(walk).entered
    /\ LET f == Last(walk)
           r == EnterResult(should_be_published, selected_crates[1], f, crates_to_exclude)
       IN  IF r = Descend
             THEN /\ walk' = [walk EXCEPT ![Len(walk)] =
                                 [f EXCEPT !.entered = TRUE, !.todo = DepSeq(deps[f.krate])]]
                  /\ UNCHANGED <<pc, err>>
             ELSE IF r = Ok
               THEN ReturnOk
               ELSE /\ walk' = <<>>
                    /\ pc' = "validated"
                    /\ err' = r
    /\ UNCHANGED <<pipeVars, crateVars, orderVars, opts, crates_to_exclude, selected_crates,
                   gitVars>>

\* One turn of `for dep in details.deps_to_publish()` (main.rs:390-408), or the
\* Ok(()) after the loop (main.rs:410).
NextDependency ==
    /\ pc = "walk"
    /\ walk # <<>>
    /\ Last(walk).entered
    /\ LET f == Last(walk)
       IN  IF f.todo = <<>>
             THEN ReturnOk
             ELSE /\ walk' = Append([walk EXCEPT ![Len(walk)].todo = Tail(f.todo)],
                                    Frame(Head(f.todo),
                                          IF f.krate = selected_crates[1] THEN <<>>
                                                                          ELSE <<f.krate>>,
                                          Append(f.visited, f.krate)))
                  /\ UNCHANGED <<pc, err>>
    /\ UNCHANGED <<pipeVars, crateVars, orderVars, opts, crates_to_exclude, selected_crates,
                   gitVars>>

\* validate_crates(&crates, krate, None, krate, &crates_to_exclude, &[]) for one
\* crate of a resolved workspace and any exclusion set.
InitVal ==
    /\ deps \in Dags
    /\ should_be_published \in [Names -> BOOLEAN]
    /\ iterOrder = [i \in 1..NumCrates |-> i]
    /\ pc = "walk"
    /\ ordered = SortBy(ResolveLoop(deps, iterOrder, <<>>))
    /\ passes = 0
    /\ publish_order = NamesOf(ordered)
    /\ err = NoErr
    /\ opts = NoOpts
    /\ crates_to_exclude \in SUBSET Names
    /\ \E krate \in Names :
           /\ selected_crates = <<krate>>
           /\ walk = <<Frame(krate, <<>>, <<>>)>>
    /\ NotStarted
    /\ history = <<>>
    /\ tree = <<>>
    /\ call = NoCall

NextVal == EnterCrate \/ NextDependency

\* A call in progress always takes its next step.
SpecVal == InitVal /\ [][NextVal]_vars /\ WF_vars(NextVal)

\* The crates validate_crates has to accept for krate to pass: krate and its
\* direct and transitive dependencies.
MustBePublishable(krate) == {krate} \cup TransDeps(deps, krate)

\* C23: the validation of a selected crate of a resolved workspace ends, and it
\* succeeds if and only if neither the crate nor any of its direct or
\* transitive dependencies is in the exclusion set or not publishable; the
\* result is the one the validator of the run computes.
C23_ValidationTerminatesAndDecides ==
    /\ <>(pc = "validated")
    /\ [](pc = "validated" =>
             /\ err = Ok <=>
                    \A krate \in MustBePublishable(selected_crates[1]) :
                        krate \notin crates_to_exclude /\ should_be_published[krate]
             /\ err = ValidationOf(selected_crates[1]))

\* A validation that succeeded after reaching one crate as a dependency of two
\* different crates.
C23_Witness ==
    /\ pc = "validated"
    /\ err = Ok
    /\ \E shared \in Names, a, b \in MustBePublishable(selected_crates[1]) :
           a # b /\ shared \in deps[a] /\ shared \in deps[b]

----------------------------------------------------------------------------
\* The workspace on disk.  The working tree maps <<k, k>> to the version in the
\* manifest of crate k, <<k, d>> to the version of d the manifest of k requires
\* (0: k has no entry for d) and <<k, Missing>> to the registry override of k
\* (0: none).

Cells == Names \X AllNames

\* Every crate starts at version 2, and the manifests still require their
\* dependencies at version 1: the requirements are brought up to date by the run.
InitialTree(d) ==
    [c \in Cells |->
        IF c[1] = c[2] THEN 2
        ELSE IF c[2] \in d[c[1]] THEN 1
        ELSE 0]

\* The iteration orders of the workspace map the whole run is followed for.
IterOrders == {[i \in 1..NumCrates |-> i], [i \in 1..NumCrates |-> NumCrates + 1 - i]}

\* crates.details[k].write_dependency_version(dep, ver): the entry for dep in the
\* manifest of k, if there is one, gets ver.
write_dependency_version(t, k, dep, ver) ==
    IF dep # k /\ t[<<k, dep>>] # 0 THEN [t EXCEPT ![<<k, dep>>] = ver] ELSE t

\* The closure of main.rs:448-464 up to and including its n-th write: the
\* manifest of sel_crate gets the version of each crate before it in the order.
RECURSIVE SyncWrites(_, _, _, _, _)
SyncWrites(t, sel_crate, preceding, ver, n) ==
    IF n = 0 THEN t
    ELSE write_dependency_version(SyncWrites(t, sel_crate, preceding, ver, n - 1),
                                  sel_crate, preceding[n], ver[preceding[n]])

\* A propagation that returns after the first manifest of the map.
PropagateWritesFirstOnly(t, iter, krate, ver, n) ==
    IF n = 0 THEN t ELSE write_dependency_version(t, iter[1], krate, ver)

\* The closure of main.rs:532-537 up to and including its n-th write: every
\* manifest, in the iteration order of the map, gets ver for krate.
RECURSIVE PropagateWrites(_, _, _, _, _)
PropagateWrites(t, iter, krate, ver, n) ==
    IF n = 0 THEN t
    ELSE write_dependency_version(PropagateWrites(t, iter, krate, ver, n - 1),
                                  iter[n], krate, ver)

\* The crates before sel_crate in publish_order (main.rs:453-456).
Preceding(order, sel_crate) == SubSeq(order, 1, IndexOf(order, sel_crate) - 1)

SelCrate == selected_crates[sel_idx]

\* An entry of steps: a call of the per-crate loop for krate that returned Ok.
Step(step, krate) == [step |-> step, krate |-> krate]

\* What a failed step leaves in err: the step, its crate, whether it had
\* changed files, and the last commit when it began.
StepError(kind, krate, changed) ==
    [kind |-> kind, krate |-> krate, changed |-> changed,
     head_tree |-> Last(history).tree, commits |-> Len(history)]

\* Crates::load_crates_in_workspace and setup_crates (main.rs:133-134).
LoadCrates ==
    /\ pc = "load"
    /\ \E d \in Graphs, pub \in [Names -> BOOLEAN], iter \in IterOrders :
         /\ deps' = d
         /\ should_be_published' = pub
         /\ iterOrder' = iter
         /\ tree' = InitialTree(d)
         /\ history' = <<[msg |-> "initial commit", tree |-> InitialTree(d)]>>
    /\ pc' = "resolve"
    /\ UNCHANGED <<pipeVars, orderVars, err, selVars, call>>

\* if let Ok(registry) = std::env::var("SPUB_REGISTRY") (main.rs:417-421); n is
\* the number of manifests written before a set_registry fails.
SetRegistry ==
    /\ pc = "registry"
    /\ \/ /\ pc' = "process"
          /\ UNCHANGED <<tree, err>>
       \/ \E n \in 0..NumCrates :
            /\ tree' = [c \in Cells |->
                           IF c[2] = Missing /\ \E i \in 1..n : iterOrder[i] = c[1]
                             THEN 1 ELSE tree[c]]
            /\ IF n = NumCrates
                 THEN pc' = "process" /\ err' = err
                 ELSE pc' = "failed" /\ err' = StepError("set_registry", iterOrder[n + 1], n > 0)
    /\ UNCHANGED <<pipeVars, crateVars, orderVars, selVars, history, call>>

\* for sel_crate in selected_crates { if processed_crates.get(sel_crate).is_some() .. }
NextSelected ==
    /\ pc = "process"
    /\ IF sel_idx > Len(selected_crates)
         THEN pc' = "post_check" /\ sel_idx' = sel_idx
         ELSE IF SelCrate \in processed_crates
                THEN pc' = "process" /\ sel_idx' = sel_idx + 1
                ELSE pc' = "sync" /\ sel_idx' = sel_idx
    /\ UNCHANGED <<version, processed_crates, crates_to_publish, already_processed_crates,
                   steps, last_version, published, bumped,
                   crateVars, orderVars, err, selVars, gitVars>>

\* with_git_checkpoint(&opts.root, GitCheckpoint::Save, || { .. })?? of
\* main.rs:448-464; n writes succeed and, if there is a next one, it fails.
SyncDependencyVersions ==
    /\ pc = "sync"
    /\ LET preceding == Preceding(publish_order, SelCrate)
       IN  \E n \in 0..Len(preceding), ok2 \in BOOLEAN :
             LET func_tree == SyncWrites(tree, SelCrate, preceding, version, n)
                 r == with_git_checkpoint(history, tree, Save, func_tree, TRUE, ok2)
             IN  /\ history' = r.history
                 /\ tree' = r.tree
                 /\ IF ~r.ok
                      THEN pc' = "failed" /\ err' = StepError("git", SelCrate, func_tree # tree)
                      ELSE IF n < Len(preceding)
                        THEN pc' = "failed"
                             /\ err' = StepError("sync", SelCrate, func_tree # tree)
                        ELSE pc' = "plan" /\ err' = err
    /\ UNCHANGED <<pipeVars, crateVars, orderVars, selVars, call>>

\* A partition that keeps the processed crates in the work set.
KeepAll(planned, processed) == planned

\* The partition of main.rs:487-490: the crates of the plan not processed yet.
NotYetProcessed(planned, processed) == SelectSeq(planned, LAMBDA k : k \notin processed)

\* crates.what_needs_publishing(sel_crate, &publish_order)?: sel_crate and
\* crates of its dependency closure, in publish order; then the partition by
\* processed_crates (main.rs:466-501).
WorkSets(sel_crate) == SUBSET (({sel_crate} \cup TransDeps(deps, sel_crate)) \cap Names)

DetermineWorkSet ==
    /\ pc = "plan"
    /\ \/ /\ pc' = "failed"
          /\ err' = StepError("what_needs_publishing", SelCrate, FALSE)
          /\ UNCHANGED <<sel_idx, crates_to_publish, already_processed_crates>>
       \/ \E W \in WorkSets(SelCrate) :
            LET planned == SelectSeq(publish_order, LAMBDA k : k \in W)
            IN  /\ err' = err
                /\ IF planned = <<>>
                     THEN /\ pc' = "process"
                          /\ sel_idx' = sel_idx + 1
                          /\ crates_to_publish' = <<>>
                          /\ already_processed_crates' = <<>>
                     ELSE /\ pc' = "crate"
                          /\ sel_idx' = sel_idx
                          /\ crates_to_publish' = NotYetProcessed(planned, processed_crates)
                          /\ already_processed_crates' =
                                 SelectSeq(planned, LAMBDA k : k \in processed_crates)
    /\ UNCHANGED <<version, processed_crates, steps, last_version, published, bumped,
                   crateVars, orderVars, selVars, gitVars>>

\* The end of `for krate in crates_to_publish` and main.rs:542.
FinishSelected ==
    /\ pc = "crate"
    /\ crates_to_publish = <<>>
    /\ processed_crates' = processed_crates \cup {SelCrate}
    /\ sel_idx' = sel_idx + 1
    /\ pc' = "process"
    /\ UNCHANGED <<version, crates_to_publish, already_processed_crates, steps,
                   last_version, published, bumped,
                   crateVars, orderVars, err, selVars, gitVars>>

\* crate_versions(krate)? and details.needs_publishing(..)? (main.rs:509-510, 526-528).
QueryRegistry ==
    /\ pc = "crate"
    /\ crates_to_publish # <<>>
    /\ LET krate == Head(crates_to_publish)
       IN  \/ /\ pc' = "failed"
              /\ err' = StepError("crate_versions", krate, FALSE)
              /\ UNCHANGED <<last_version, steps>>
           \/ /\ pc' = "bump"
              /\ steps' = steps \o <<Step("crate_versions", krate),
                                     Step("needs_publishing", krate)>>
              /\ UNCHANGED <<err, last_version>>
           \/ /\ pc' = "propagate"
              /\ steps' = steps \o <<Step("crate_versions", krate),
                                     Step("needs_no_publishing", krate)>>
              /\ last_version' = version[krate]
              /\ err' = err
    /\ UNCHANGED <<version, processed_crates, sel_idx, crates_to_publish,
                   already_processed_crates, published, bumped,
                   crateVars, orderVars, selVars, gitVars>>

\* with_git_checkpoint(.., Save, || details.maybe_bump_version(..))?? (main.rs:511-519):
\* the bump raises the version in memory and in the manifest, keeps it, or fails.
BumpVersion ==
    /\ pc = "bump"
    /\ LET krate == Head(crates_to_publish)
       IN  \E outcome \in {"bumped", "kept", "failed"}, ok2 \in BOOLEAN :
             LET new_version == IF outcome = "bumped" THEN version[krate] + 1
                                ELSE version[krate]
                 func_tree == [tree EXCEPT ![<<krate, krate>>] = new_version]
                 r == with_git_checkpoint(history, tree, Save, func_tree, TRUE, ok2)
             IN  /\ version' = [version EXCEPT ![krate] = new_version]
                 /\ bumped' = Append(bumped, krate)
                 /\ history' = r.history
                 /\ tree' = r.tree
                 /\ IF ~r.ok
                      THEN pc' = "failed" /\ err' = StepError("git", krate, func_tree # tree)
                           /\ UNCHANGED <<last_version, steps>>
                      ELSE IF outcome = "failed"
                        THEN pc' = "failed" /\ err' = StepError("bump", krate, FALSE)
                             /\ UNCHANGED <<last_version, steps>>
                        ELSE pc' = "publish" /\ err' = err
                             /\ last_version' = new_version
                             /\ steps' = Append(steps, Step("bump", krate))
    /\ UNCHANGED <<processed_crates, sel_idx, crates_to_publish, already_processed_crates,
                   published,
                   crateVars, orderVars, selVars, call>>

\* crates.publish(krate, ..)? (main.rs:520-524).
PublishCrate ==
    /\ pc = "publish"
    /\ LET krate == Head(crates_to_publish)
       IN  /\ published' = Append(published, krate)
           /\ \/ /\ pc' = "propagate"
                 /\ err' = err
                 /\ steps' = Append(steps, Step("publish", krate))
              \/ /\ pc' = "failed"
                 /\ err' = StepError("publish", krate, FALSE)
                 /\ steps' = steps
    /\ UNCHANGED <<version, processed_crates, sel_idx, crates_to_publish,
                   already_processed_crates, last_version, bumped,
                   crateVars, orderVars, selVars, gitVars>>

\* with_git_checkpoint(.., Save, || { for (_, details) in crates.details.iter() .. })??
\* and processed_crates.insert(krate) (main.rs:532-539).
PropagateVersion ==
    /\ pc = "propagate"
    /\ LET krate == Head(crates_to_publish)
       IN  \E n \in 0..NumCrates, ok2 \in BOOLEAN :
             LET func_tree == PropagateWrites(tree, iterOrder, krate, last_version, n)
                 r == with_git_checkpoint(history, tree, Save, func_tree, TRUE, ok2)
             IN  /\ history' = r.history
                 /\ tree' = r.tree
                 /\ IF ~r.ok
                      THEN /\ pc' = "failed"
                           /\ err' = StepError("git", krate, func_tree # tree)
                           /\ UNCHANGED <<processed_crates, crates_to_publish, steps>>
                      ELSE IF n < NumCrates
                        THEN /\ pc' = "failed"
                             /\ err' = StepError("propagate", krate, func_tree # tree)
                             /\ UNCHANGED <<processed_crates, crates_to_publish, steps>>
                        ELSE /\ pc' = "crate"
                             /\ err' = err
                             /\ processed_crates' = processed_crates \cup {krate}
                             /\ crates_to_publish' = Tail(crates_to_publish)
                             /\ steps' = Append(steps, Step("propagate", krate))
    /\ UNCHANGED <<version, sel_idx, already_processed_crates, last_version, published, bumped,
                   crateVars, orderVars, selVars, call>>

\* if opts.post_check { cargo update; cargo check } (main.rs:545-570).
PostCheck ==
    /\ pc = "post_check"
    /\ \/ pc' = "done" /\ err' = err
       \/ pc' = "failed" /\ err' = StepError("post_check", Missing, FALSE)
    /\ UNCHANGED <<pipeVars, crateVars, orderVars, selVars, gitVars>>

\* After the run has ended, the operator runs git_checkpoint_revert(root).
RevertAfterRun ==
    /\ pc \in {"failed", "done"}
    /\ LET r == git_checkpoint_revert(history, tree, Len(history) + 1)
       IN  /\ history' = r.history
           /\ tree' = r.tree
           /\ call' = [name |-> "git_checkpoint_revert", ok |-> r.ok,
                       pre_tree |-> tree,
                       resets |-> Len(history) - Len(r.history),
                       follows |-> NoCall]
    /\ pc' = "reverted"
    /\ UNCHANGED <<pipeVars, crateVars, orderVars, err, selVars>>

Init ==
    /\ pc = "load"
    /\ deps = [k \in Names |-> {}]
    /\ should_be_published = [k \in Names |-> TRUE]
    /\ iterOrder = [i \in 1..NumCrates |-> i]
    /\ ordered = <<>>
    /\ passes = 0
    /\ publish_order = <<>>
    /\ err = NoErr
    /\ opts = NoOpts
    /\ crates_to_exclude = {}
    /\ selected_crates = <<>>
    /\ walk = <<>>
    /\ NotStarted
    /\ history = <<>>
    /\ tree = <<>>
    /\ call = NoCall

Next ==
    \/ LoadCrates
    \/ ResolvePass
    \/ SortOrder
    \/ CheckUnordered
    \/ ComputeExclusions
    \/ SelectCrates
    \/ ValidateSelected
    \/ SetRegistry
    \/ NextSelected
    \/ SyncDependencyVersions
    \/ DetermineWorkSet
    \/ FinishSelected
    \/ QueryRegistry
    \/ BumpVersion
    \/ PublishCrate
    \/ PropagateVersion
    \/ PostCheck
    \/ RevertAfterRun

Spec == Init /\ [][Next]_vars

\* ---------------------------------------------------------------------------
\* Properties of the whole run.

NoDuplicates(s) == \A i, j \in 1..Len(s) : s[i] = s[j] => i = j

\* krate and its transitive dependencies are all publishable and not excluded.
ClosureOk(krate) ==
    \A x \in {krate} \cup TransDeps(deps, krate) :
        x \in Names /\ x \notin crates_to_exclude /\ should_be_published[x]

\* Anything a run may change has changed: a commit was added, a file differs
\* from the initial commit, a version was bumped or a crate was published.
Mutated ==
    \/ Len(history) > 1
    \/ tree # history[1].tree
    \/ version # [k \in Names |-> 2]
    \/ bumped # <<>>
    \/ published # <<>>

\* C1: the publish call is never made for a crate that is excluded, is not
\* publishable, or has an excluded or unpublishable crate among its transitive
\* dependencies (the planner returning only the selected crate and crates of
\* its dependency closure, as WorkSets does).
C1_NeverPublishExcludedOrUnpublishable ==
    \A i \in 1..Len(published) : ClosureOk(published[i])

\* A dependency of the selected crate is published in a workspace that has an
\* unpublishable crate and an excluded one.
C1_Witness ==
    /\ \E k \in Names : ~should_be_published[k]
    /\ crates_to_exclude # {}
    /\ \E i \in 1..Len(published) : published[i] \notin Range(selected_crates)

\* C7: after a sync, bump or propagation step failed having changed files, or
\* the publish call failed, revert() leaves the tree of the last commit made
\* before the failing step began, and no commit of the failed step remains.
C7_RevertDiscardsFailedStep ==
    (/\ pc = "reverted"
     /\ call.ok
     /\ \/ err.kind \in {"sync", "bump", "propagate"} /\ err.changed
        \/ err.kind = "publish")
    => /\ tree = err.head_tree
       /\ Len(history) = err.commits

\* C8: a crate of processed_crates is never in the work list of the per-crate
\* loop and is never the selected crate being processed, and no crate is
\* bumped or published twice in a run.
C8_ProcessedNeverRepeated ==
    /\ NoDuplicates(published)
    /\ NoDuplicates(bumped)
    /\ pc \in {"crate", "bump", "publish", "propagate"} =>
           Range(crates_to_publish) \cap processed_crates = {}
    /\ pc \in {"sync", "plan"} => SelCrate \notin processed_crates

\* The plan of the selected crate contained a crate processed earlier, which
\* was filtered out, and the selected crate went on to be published.
C8_Witness ==
    /\ already_processed_crates # <<>>
    /\ Range(already_processed_crates) \subseteq Range(published)
    /\ pc = "propagate"
    /\ Head(crates_to_publish) = SelCrate
    /\ SelCrate \in Range(published)

\* C9: nothing is committed, written, bumped or published before the order is
\* complete, the selection is non-empty and every selected crate has passed
\* validation; a run that fails in one of these leaves everything untouched.
C9_NoMutationBeforeValidation ==
    pc # "load" =>
        /\ pc \in {"resolve", "sort", "check_order", "exclude", "select", "validate",
                   "registry"} => ~Mutated
        /\ err.kind \in {"order", "no_crates_selected", "excluded", "not_found",
                         "should_not_be_published"} => ~Mutated
        /\ Mutated =>
               /\ Range(publish_order) = Names
               /\ selected_crates # <<>>
               /\ \A i \in 1..Len(selected_crates) : ClosureOk(selected_crates[i])

\* A run ended by the validation of a dependency of a selected crate, and was
\* followed by a revert.
C9_Witness ==
    /\ pc = "reverted"
    /\ err.kind = "should_not_be_published"
    /\ err.krate \notin Range(selected_crates)
    /\ ~Mutated

\* Every manifest with an entry for P requires the version P has.
ReferencesResultingVersion(P) ==
    \A k \in Names \ {P} : tree[<<k, P>>] # 0 => tree[<<k, P>>] = version[P]

\* The crates with the given step in steps.
WithStep(step) == {steps[i].krate : i \in {j \in 1..Len(steps) : steps[j].step = step}}

\* C13 as stated: every manifest that references a crate of processed_crates
\* references its resulting version, from the moment the crate enters the set
\* to the successful end of the run.
C13_ProcessedVersionPropagated ==
    pc \in {"crate", "process", "post_check", "done"} =>
        \A P \in processed_crates : ReferencesResultingVersion(P)

\* C13 for the crates that went through the per-crate loop: from the end of
\* the propagation of P on, bumped or not, every manifest that references P
\* references the version P has, up to the end of the run; the other crates
\* of processed_crates are selected crates that were not in their own plan.
C13_PropagatedVersionReferenced ==
    pc # "load" =>
        /\ \A P \in WithStep("propagate") :
               P \in processed_crates /\ ReferencesResultingVersion(P)
        /\ processed_crates \ WithStep("propagate") \subseteq Range(selected_crates)

\* A successful run in which a bumped crate and a crate that did not need
\* publishing were propagated into the manifests of their dependents.
C13_Witness ==
    /\ pc = "done"
    /\ \E P, Q \in WithStep("propagate") :
           /\ P \in WithStep("publish") /\ version[P] = 3
           /\ Q \in WithStep("needs_no_publishing")
           /\ \E k \in Names : tree[<<k, P>>] = 3
           /\ \E k \in Names \ {Q} : tree[<<k, Q>>] = version[Q]

\* Step(a, P) is in steps, and Step(b, P) is in steps after it.
Before(a, b, P) ==
    \E i \in 1..Len(steps) :
        /\ steps[i] = Step(a, P)
        /\ \E j \in (i + 1)..Len(steps) : steps[j] = Step(b, P)

\* The parts of C14 on the publish call and on the needs_publishing decision:
\* a crate the publish call was made for had its registry versions queried,
\* then needs_publishing return true, then its bump run, and at the call the
\* bump is committed; a crate's decision is taken after every crate the loop
\* began before it was propagated, and its manifest requires their versions.
PublishAfterBumpAndSync ==
    /\ \A i \in 1..Len(published) :
           LET P == published[i]
           IN  /\ Before("crate_versions", "needs_publishing", P)
               /\ Before("needs_publishing", "bump", P)
               /\ P \in WithStep("publish") => Before("bump", "publish", P)
    /\ pc = "publish" =>
           /\ steps[Len(steps)] = Step("bump", Head(crates_to_publish))
           /\ ~Dirty(history, tree)
           /\ tree[<<Head(crates_to_publish), Head(crates_to_publish)>>]
                  = version[Head(crates_to_publish)]
    /\ \A j \in 1..Len(steps) :
           steps[j].step \in {"needs_publishing", "needs_no_publishing"} =>
               \A i \in 1..(j - 1) :
                   steps[i].krate # steps[j].krate =>
                       \E n \in i..(j - 1) : steps[n] = Step("propagate", steps[i].krate)
    /\ pc \in {"bump", "publish", "propagate"} =>
           \A Q \in WithStep("propagate") :
               tree[<<Head(crates_to_publish), Q>>] \in {0, version[Q]}

\* C14 as stated: the orders above, and the propagation of a crate's version
\* and its entry into processed_crates only after its publish call succeeded.
C14_PropagateOnlyAfterPublish ==
    pc # "load" =>
        /\ PublishAfterBumpAndSync
        /\ WithStep("propagate") \subseteq WithStep("publish")

\* C14 with the crates that need no publishing: the orders above; a crate is
\* propagated and enters processed_crates either after its publish call
\* succeeded or, when needs_publishing returned false, without any publish
\* call; never after a publish call that failed.
C14_PublishPipelineOrder ==
    pc # "load" =>
        /\ PublishAfterBumpAndSync
        /\ \A P \in WithStep("propagate") :
               \/ Before("publish", "propagate", P)
               \/ /\ Before("needs_no_publishing", "propagate", P)
                  /\ P \notin Range(published)
        /\ \A P \in Range(published) \cap processed_crates :
               P \in WithStep("propagate") /\ P \in WithStep("publish")

\* Two crates of one work list: the first published and propagated, then the
\* second published.
C14_Witness ==
    /\ Len(published) = 2
    /\ pc = "propagate"
    /\ Before("publish", "propagate", published[1])
    /\ tree[<<published[2], published[1]>>] = 3
    /\ published[2] = Head(crates_to_publish)
    /\ published[2] \in WithStep("publish")

\* The names of the command line that are not crates of the workspace.
UnknownNames == (opts.crates \cup opts.exclude \cup Range(opts.start_from)) \ Names

\* C15: a run whose command line names a crate that is not in the workspace
\* does not get past validation, the last step before the first mutation: it
\* ends in a fatal error.
C15_UnknownNameAborts ==
    [][(pc = "validate" /\ UnknownNames # {}) => pc' = "failed"]_vars

\* C16: processed_crates only grows, and the version of a crate that is in it
\* is not changed by any later step of the run.
C16_ProcessedVersionFinal ==
    [][/\ processed_crates \subseteq processed_crates'
       /\ \A k \in processed_crates : version'[k] = version[k]]_vars

\* A run that ended after a bumped crate came back in the plan of a later
\* selected crate, which was bumped in its turn.
C16_Witness ==
    /\ pc = "done"
    /\ already_processed_crates # <<>>
    /\ \A k \in Range(already_processed_crates) : version[k] = 3
    /\ version[selected_crates[Len(selected_crates)]] = 3

\* C19: every commit a run adds to the initial one has the Save marker, and a
\* revert after the run, completed or aborted, removes no commit.
C19_RunCommitsAreSave ==
    pc # "load" =>
        /\ \A i \in 2..Len(history) : history[i].msg = "[subpub] CHECKPOINT_SAVE"
        /\ (pc = "reverted" /\ call.ok) => call.resets = 0

\* A revert after a run that was aborted by its publish call and had added two
\* commits.
C19_Witness ==
    /\ pc = "reverted"
    /\ call.ok
    /\ err.kind = "publish"
    /\ Len(history) >= 3

\* C20: when the run completes successfully every selected crate is in
\* processed_crates, a selected crate with an empty plan included.
C20_SelectedAllProcessed ==
    pc = "done" => Range(selected_crates) \subseteq processed_crates

====
